---- MODULE Spec2Model ----
(***************************************************************************)
(* Controllers of the submission metadata API                              *)
(* (src/metadata/controllers/submission.py).                               *)
(*                                                                         *)
(* A Python dict is a function whose DOMAIN is its set of keys, so that    *)
(* `key in d` is `key \in DOMAIN d`; a list is a sequence; an object is a  *)
(* record tagged with its class and holding the constructor's arguments.   *)
(* A Python call either returns a value or raises: an Outcome record.      *)
(* The event store (`ev.save`, `ev.load`), `url_for` and the logger are    *)
(* collaborators: the store's answer is an input of each request, and the  *)
(* calls made to the store and the logger are recorded, in order, in       *)
(* `effects`.                                                              *)
(***************************************************************************)
EXTENDS Integers, Sequences, FiniteSets, TLC

VARIABLES
    pc,            \* "ready": a request is waiting; "done": it has been served
    op,            \* the function that served it
    data,          \* the request document (the dict object the caller passed)
    data0,         \* the document as it was when the call was made
    headers,       \* request headers
    user_data,     \* the authenticated user
    client_data,   \* the authenticated client application
    submission_id, \* the identifier in the request path (update, get)
    agents,        \* what _get_agents returned: <<user, client, proxy>>
    compiled,      \* the outcome of _update_submission
    store_result,  \* the outcome of the store call, None when it was not called
    effects,       \* calls to the store and the logger, in program order
    response       \* the outcome of the controller: a Response or an HTTP error

vars == <<pc, op, data, data0, headers, user_data, client_data, submission_id,
          agents, compiled, store_result, effects, response>>

----------------------------------------------------------------------------
(* Python values *)

\* Python's None
None == [class |-> "NoneType"]

\* {}
EmptyDict == [k \in {} |-> None]

\* {key: value}
Dict1(key, value) == [k \in {key} |-> value]

\* d.get(key), whose default is None
dict_get(d, key) == IF key \in DOMAIN d THEN d[key] ELSE None

\* d.get(key, default)
dict_get_default(d, key, default) == IF key \in DOMAIN d THEN d[key] ELSE default

\* d[key] = value
dict_set(d, key, value) ==
    [k \in DOMAIN d \cup {key} |-> IF k = key THEN value ELSE d[k]]

\* a call that returned `value`
Returned(value) == [raised |-> FALSE, value |-> value, exception |-> None]

\* a call that raised `exception`
Raised(exception) == [raised |-> TRUE, value |-> None, exception |-> exception]

\* an exception object; str(e) is its message, type(e) its class
Exception(type, message) == [class |-> type, message |-> message]

\* d[key] on a dict without that key
KeyError(key) == Exception("KeyError", key)

----------------------------------------------------------------------------
(* Objects of the events package, built by the controllers *)

\* ev.User(native_id=..., email=...)
ev_User(native_id, email) ==
    [class |-> "User", native_id |-> native_id, email |-> email]

\* ev.User(a, b, c): three positional arguments (identifier, email, and the
\* constructor's third parameter)
ev_User3(native_id, email, arg3) ==
    [class |-> "User", native_id |-> native_id, email |-> email, arg3 |-> arg3]

\* ev.Client(native_id=...)
ev_Client(native_id) == [class |-> "Client", native_id |-> native_id]

\* agents = dict(creator=creator, client=client, proxy=proxy)
agents_dict(creator, client, proxy) ==
    [creator |-> creator, client |-> client, proxy |-> proxy]

\* ev.<Kind>(**agents, **payload)
ev_Event(kind, ag, payload) == [class |-> kind] @@ ag @@ payload

\* ev.CreateSubmission(creator=user, client=client, proxy=proxy)
ev_CreateSubmission(creator, client, proxy) ==
    ev_Event("CreateSubmission", agents_dict(creator, client, proxy), EmptyDict)

\* ev.Author(**au)
ev_Author(au) == [class |-> "Author", fields |-> au]

\* ev.UpdateMetadata.FIELDS: the metadata fields an UpdateMetadata event takes
FIELDS ==
    <<"title", "abstract", "comments", "doi", "journal_ref", "msc_class",
      "acm_class">>

\* submission.to_dict()
to_dict(submission) == [submission_id |-> submission.submission_id]

\* url_for(endpoint, **values)
url_for(endpoint, values) == [endpoint |-> endpoint, values |-> values]

----------------------------------------------------------------------------
(* _get_agents *)

\* variant: the header's subject becomes the proxy instead of the creator
_get_agents_swapped(hdrs, udata, cdata) ==
    LET user == ev_User(udata["user_id"], udata["email"])
        client == ev_Client(cdata["client_id"])
    IN  IF "X-On-Behalf-Of" \in DOMAIN hdrs
        THEN <<user, client, ev_User3(hdrs["X-On-Behalf-Of"], "", "")>>
        ELSE <<user, client, None>>

\* headers.get('X-On-Behalf-Of') is None exactly when the key is absent: a
\* header's value is a string.
_get_agents(hdrs, udata, cdata) ==
    LET user == ev_User(udata["user_id"], udata["email"])
        client == ev_Client(cdata["client_id"])
    IN  IF "X-On-Behalf-Of" \in DOMAIN hdrs
        THEN LET on_behalf_of == hdrs["X-On-Behalf-Of"]
                 proxy == user
             IN  <<ev_User3(on_behalf_of, "", ""), client, proxy>>
        ELSE <<user, client, None>>

----------------------------------------------------------------------------
(* _update_submission *)

\* lines 155-161
step_submitter_is_author(d, ag) ==
    IF "submitter_is_author" \in DOMAIN d
    THEN <<ev_Event("AssertAuthorship", ag,
                    [submitter_is_author |-> d["submitter_is_author"]])>>
    ELSE <<>>

\* lines 162-169: data['license']['uri'] raises KeyError when there is no uri
step_license(d, ag) ==
    IF "license" \in DOMAIN d
    THEN IF "uri" \in DOMAIN d["license"]
         THEN Returned(<<ev_Event("SelectLicense", ag,
                            [license_name |-> dict_get(d["license"], "name"),
                             license_uri |-> d["license"]["uri"]])>>)
         ELSE Raised(KeyError("uri"))
    ELSE Returned(<<>>)

\* lines 171-172
step_submitter_accepts_policy(d, ag) ==
    IF "submitter_accepts_policy" \in DOMAIN d /\ d["submitter_accepts_policy"]
    THEN <<ev_Event("AcceptPolicy", ag, EmptyDict)>>
    ELSE <<>>

\* lines 175-179
step_primary_classification(d, ag) ==
    IF "primary_classification" \in DOMAIN d
    THEN IF "category" \in DOMAIN d["primary_classification"]
         THEN Returned(<<ev_Event("SetPrimaryClassification", ag,
                  [category |-> d["primary_classification"]["category"]])>>)
         ELSE Raised(KeyError("category"))
    ELSE Returned(<<>>)

\* lines 181-185
step_secondary_classification(d, ag) ==
    LET entries == dict_get_default(d, "secondary_classification", <<>>)
    IN  IF \A i \in 1..Len(entries) : "category" \in DOMAIN entries[i]
        THEN Returned([i \in 1..Len(entries) |->
                 ev_Event("AddSecondaryClassification", ag,
                          [category |-> entries[i]["category"]])])
        ELSE Raised(KeyError("category"))

\* variant: no UpdateMetadata event when no recognized field is given
step_metadata_nonempty(d, ag) ==
    IF "metadata" \in DOMAIN d
    THEN LET present == SelectSeq(FIELDS, LAMBDA key : key \in DOMAIN d["metadata"])
             metadata == [i \in 1..Len(present) |->
                              <<present[i], d["metadata"][present[i]]>>]
         IN  IF present = <<>> THEN <<>>
             ELSE <<ev_Event("UpdateMetadata", ag, [metadata |-> metadata])>>
    ELSE <<>>

\* lines 190-196
step_metadata(d, ag) ==
    IF "metadata" \in DOMAIN d
    THEN LET present == SelectSeq(FIELDS, LAMBDA key : key \in DOMAIN d["metadata"])
             metadata == [i \in 1..Len(present) |->
                              <<present[i], d["metadata"][present[i]]>>]
         IN  <<ev_Event("UpdateMetadata", ag, [metadata |-> metadata])>>
    ELSE <<>>

\* variant: a missing order defaults to the one-based position
author_order_one_based(au, i) ==
    IF "order" \in DOMAIN au THEN au ELSE dict_set(au, "order", i + 1)

\* lines 201-202: the author dict after the loop body, i its zero-based index
author_order(au, i) ==
    IF "order" \in DOMAIN au THEN au ELSE dict_set(au, "order", i)

\* lines 198-204: the author dicts of the document after the loop
authors_after(d) ==
    LET aus == d["metadata"]["authors"]
    IN  [i \in 1..Len(aus) |-> author_order(aus[i], i - 1)]

has_authors(d) == "metadata" \in DOMAIN d /\ "authors" \in DOMAIN d["metadata"]

\* lines 198-204
step_authors(d, ag) ==
    IF has_authors(d)
    THEN LET aus == authors_after(d)
             authors == [i \in 1..Len(aus) |-> ev_Author(aus[i])]
         IN  <<ev_Event("UpdateAuthors", ag, [authors |-> authors])>>
    ELSE <<>>

\* the document object once _update_submission has run to its end: line 202
\* assigns into the author dicts of the caller's document
data_after(d) ==
    IF has_authors(d)
    THEN [d EXCEPT !["metadata"] = [@ EXCEPT !["authors"] = authors_after(d)]]
    ELSE d

\* variant: AcceptPolicy is emitted before AssertAuthorship and SelectLicense
_update_submission_policy_first(d, creator, client, proxy) ==
    LET ag == agents_dict(creator, client, proxy)
        lic == step_license(d, ag)
        prim == step_primary_classification(d, ag)
        sec == step_secondary_classification(d, ag)
    IN  IF lic.raised THEN [outcome |-> lic, data |-> d]
        ELSE IF prim.raised THEN [outcome |-> prim, data |-> d]
        ELSE IF sec.raised THEN [outcome |-> sec, data |-> d]
        ELSE [outcome |-> Returned(
                  step_submitter_accepts_policy(d, ag)
                  \o step_submitter_is_author(d, ag) \o lic.value
                  \o prim.value \o sec.value
                  \o step_metadata(d, ag) \o step_authors(d, ag)),
              data |-> data_after(d)]

\* [outcome: the list of events returned or the exception raised,
\*  data: the document object afterwards]
_update_submission(d, creator, client, proxy) ==
    LET ag == agents_dict(creator, client, proxy)
        lic == step_license(d, ag)
        prim == step_primary_classification(d, ag)
        sec == step_secondary_classification(d, ag)
    IN  IF lic.raised THEN [outcome |-> lic, data |-> d]
        ELSE IF prim.raised THEN [outcome |-> prim, data |-> d]
        ELSE IF sec.raised THEN [outcome |-> sec, data |-> d]
        ELSE [outcome |-> Returned(
                  step_submitter_is_author(d, ag) \o lic.value
                  \o step_submitter_accepts_policy(d, ag)
                  \o prim.value \o sec.value
                  \o step_metadata(d, ag) \o step_authors(d, ag)),
              data |-> data_after(d)]

----------------------------------------------------------------------------
(* The controllers.  `store` is the outcome the event store gives to the   *)
(* one call the controller makes to it, if it makes it.                    *)

\* logger.<level>(message, *args)
log(level, message, args) ==
    [effect |-> "log", level |-> level, message |-> message, args |-> args]

\* ev.save(*events, **kwargs), ev.load(*args)
call(fn, args, kwargs) ==
    [effect |-> "call", fn |-> fn, args |-> args, kwargs |-> kwargs]

\* raise <class>(description)
HTTPError(class, description) == Raised(Exception(class, description))

\* logger.error('Unhandled exception: (%s) %s', str(type(e)), str(e))
log_unhandled(e) ==
    log("error", "Unhandled exception: (%s) %s", <<e.class, e.message>>)

\* the `try` body of create_submission and update_submission, lines 72-75 and
\* 112-115: the arguments are evaluated first, and the store is called only
\* if `_update_submission` returned
try_save(first, comp, kwargs, store) ==
    IF comp.outcome.raised
    THEN [outcome |-> comp.outcome, effects |-> <<>>, store_result |-> None]
    ELSE [outcome |-> store,
          effects |-> <<call("ev.save", first \o comp.outcome.value, kwargs)>>,
          store_result |-> store]

\* variant: CreateSubmission is passed after the compiled events
create_submission_append(d, hdrs, udata, cdata, store) ==
    LET ag == _get_agents(hdrs, udata, cdata)
        comp == _update_submission(d, ag[1], ag[2], ag[3])
    IN  [agents |-> ag, compiled |-> comp.outcome, data |-> comp.data,
         store_result |-> IF comp.outcome.raised THEN None ELSE store,
         effects |-> IF comp.outcome.raised THEN <<>>
                     ELSE <<call("ev.save",
                                 comp.outcome.value
                                 \o <<ev_CreateSubmission(ag[1], ag[2], ag[3])>>,
                                 EmptyDict)>>,
         response |-> IF comp.outcome.raised \/ store.raised
                      THEN HTTPError("InternalServerError", "")
                      ELSE Returned(<<to_dict(store.value[1]), 201, EmptyDict>>)]

\* variant: every exception is answered without being logged
create_submission_silent(d, hdrs, udata, cdata, store) ==
    LET ag == _get_agents(hdrs, udata, cdata)
        comp == _update_submission(d, ag[1], ag[2], ag[3])
        try == try_save(<<ev_CreateSubmission(ag[1], ag[2], ag[3])>>, comp,
                        EmptyDict, store)
    IN  [agents |-> ag, compiled |-> comp.outcome, data |-> comp.data,
         store_result |-> try.store_result,
         effects |-> try.effects,
         response |-> IF try.outcome.raised
                      THEN HTTPError("InternalServerError",
                                     <<"Encountered unhandled exception">>)
                      ELSE Returned(<<to_dict(store.value[1]), 201, EmptyDict>>)]

\* lines 44-88
create_submission(d, hdrs, udata, cdata, store) ==
    LET received == log("debug", "Received request to create submission", <<>>)
        ag == _get_agents(hdrs, udata, cdata)
        user == ag[1]
        client == ag[2]
        proxy == ag[3]
        who == log("debug", "User: {user}; client: {client}, proxy: {proxy}",
                   <<user, client, proxy>>)
        comp == _update_submission(d, user, client, proxy)
        try == try_save(<<ev_CreateSubmission(user, client, proxy)>>, comp,
                        EmptyDict, store)
        e == try.outcome.exception
        base == [agents |-> ag, compiled |-> comp.outcome, data |-> comp.data,
                 store_result |-> try.store_result]
    IN  IF ~try.outcome.raised
        THEN LET submission == try.outcome.value[1]
                 response_headers ==
                     [Location |-> url_for("submission.get_submission",
                         [submission_id |-> submission.submission_id])]
             IN  base @@ [effects |-> <<received, who>> \o try.effects,
                          response |-> Returned(<<to_dict(submission), 201,
                                                  response_headers>>)]
        ELSE IF e.class = "InvalidEvent"
        THEN base @@ [effects |-> <<received, who>> \o try.effects,
                      response |-> HTTPError("InternalServerError",
                                             <<e.message>>)]
        ELSE IF e.class = "SaveError"
        THEN base @@ [effects |-> <<received, who>> \o try.effects,
                      response |-> HTTPError("InternalServerError",
                          <<"Problem interacting with database: %s",
                            e.message>>)]
        ELSE base @@ [effects |-> <<received, who>> \o try.effects
                                  \o <<log_unhandled(e)>>,
                      response |-> HTTPError("InternalServerError",
                          <<"Encountered unhandled exception">>)]

\* variant: an unknown submission is loaded a second time
get_submission_retry(sid, store) ==
    LET load == call("ev.load", <<sid>>, EmptyDict)
    IN  IF ~store.raised
        THEN [store_result |-> store, effects |-> <<load>>,
              response |-> Returned(<<to_dict(store.value[1]), 200, EmptyDict>>)]
        ELSE IF store.exception.class = "NoSuchSubmission"
        THEN [store_result |-> store, effects |-> <<load, load>>,
              response |-> HTTPError("NotFound", <<"Submission not found">>)]
        ELSE [store_result |-> store,
              effects |-> <<load, log_unhandled(store.exception)>>,
              response |-> HTTPError("InternalServerError",
                                     <<"Encountered unhandled exception">>)]

\* lines 91-102
get_submission(sid, store) ==
    LET load == call("ev.load", <<sid>>, EmptyDict)
        e == store.exception
    IN  IF ~store.raised
        THEN LET submission == store.value[1]
             IN  [store_result |-> store, effects |-> <<load>>,
                  response |-> Returned(<<to_dict(submission), 200, EmptyDict>>)]
        ELSE IF e.class = "NoSuchSubmission"
        THEN [store_result |-> store, effects |-> <<load>>,
              response |-> HTTPError("NotFound", <<"Submission not found">>)]
        ELSE [store_result |-> store,
              effects |-> <<load, log_unhandled(e)>>,
              response |-> HTTPError("InternalServerError",
                                     <<"Encountered unhandled exception">>)]

\* lines 105-130
update_submission(d, hdrs, udata, cdata, sid, store) ==
    LET ag == _get_agents(hdrs, udata, cdata)
        user == ag[1]
        client == ag[2]
        proxy == ag[3]
        comp == _update_submission(d, user, client, proxy)
        try == try_save(<<>>, comp, [submission_id |-> sid], store)
        e == try.outcome.exception
        base == [agents |-> ag, compiled |-> comp.outcome, data |-> comp.data,
                 store_result |-> try.store_result]
    IN  IF ~try.outcome.raised
        THEN LET submission == try.outcome.value[1]
                 response_headers ==
                     [Location |-> url_for("submit.get_submission",
                         [creator |-> user,
                          submission_id |-> submission.submission_id])]
             IN  base @@ [effects |-> try.effects,
                          response |-> Returned(<<to_dict(submission), 200,
                                                  response_headers>>)]
        ELSE IF e.class = "NoSuchSubmission"
        THEN base @@ [effects |-> try.effects,
                      response |-> HTTPError("NotFound",
                          <<"No submission found with id {submission_id}", sid>>)]
        ELSE IF e.class = "InvalidEvent"
        THEN base @@ [effects |-> try.effects,
                      response |-> HTTPError("InternalServerError",
                                             <<e.message>>)]
        ELSE IF e.class = "SaveError"
        THEN base @@ [effects |-> try.effects,
                      response |-> HTTPError("InternalServerError",
                          <<"Problem interacting with database">>)]
        ELSE base @@ [effects |-> try.effects \o <<log_unhandled(e)>>,
                      response |-> HTTPError("InternalServerError",
                          <<"Encountered unhandled exception">>)]

----------------------------------------------------------------------------
(* Requests *)

\* the longest secondary_classification list drawn
MaxSecondary == 2

\* the longest metadata.authors list drawn
MaxAuthors == 2

\* all lists over S of length at most n
SeqsUpTo(S, n) == UNION {[1..k -> S] : k \in 0..n}

\* a dict with the key absent, or present with one of the values
Optional(key, Values) == {EmptyDict} \cup {Dict1(key, v) : v \in Values}

Categories == {"astro-ph.GA", "cs.DL"}

\* license objects: {name?, uri}, and the ones without uri
Licenses ==
    {n @@ u : n \in Optional("name", {"CC BY 4.0"}),
              u \in Optional("uri", {"http://creativecommons.org/licenses/by/4.0/"})}

\* author entries, without and with `order`
AuthorEntries == {[forename |-> "Jane"], [forename |-> "John", order |-> 5]}

\* metadata objects: two recognized fields, an unrecognized one, authors
Metadata ==
    {b @@ t @@ x @@ a :
                   b \in Optional("abstract", {"foo abstract"}),
                   t \in Optional("title", {"foo title"}),
                   x \in Optional("keywords", {"bar"}),
                   a \in Optional("authors", SeqsUpTo(AuthorEntries, MaxAuthors))}

\* the documents _update_submission is applied to; `comment` is a key it does
\* not know
Documents ==
    {top @@ lic @@ pol @@ prim @@ sec @@ md :
        top \in Optional("submitter_is_author", BOOLEAN)
                  \cup Optional("comment", {"baz"}),
        lic \in Optional("license", Licenses \ {EmptyDict}),
        pol \in Optional("submitter_accepts_policy", BOOLEAN),
        prim \in Optional("primary_classification", {[category |-> "astro-ph.GA"]}),
        sec \in Optional("secondary_classification",
                         SeqsUpTo({[category |-> c] : c \in Categories}, MaxSecondary)),
        md \in Optional("metadata", Metadata)}

\* the documents of the requests served by the controllers
RequestDocuments ==
    {lic @@ pol @@ prim @@ md :
        lic \in Optional("license", Licenses),
        pol \in Optional("submitter_accepts_policy", {TRUE}),
        prim \in Optional("primary_classification", {[category |-> "astro-ph.GA"]}),
        md \in Optional("metadata",
                  {[title |-> "foo title"],
                   [title |-> "foo title",
                    authors |-> <<[forename |-> "Jane"],
                                  [forename |-> "John", order |-> 5]>>]})}

\* request headers: without X-On-Behalf-Of, and with it
Headers == Optional("X-On-Behalf-Of", {"", "alice"})

Users == {[user_id |-> "1234", email |-> "foo@bar.baz"],
          [user_id |-> "4321", email |-> "baz@bar.foo"]}

Clients == {[client_id |-> "5678"]}

SubmissionIds == {"1", "2"}

\* what the store may do when called: return, or raise one of the exceptions
\* of the events package, or one that is none of them
StoreBehaviours ==
    {"return", "InvalidEvent", "SaveError", "NoSuchSubmission", "RuntimeError"}

\* the store's answer to a call about submission `sid`: the submission and its
\* events, or an exception
StoreAnswer(behaviour, sid) ==
    IF behaviour = "return"
    THEN Returned(<<[class |-> "Submission", submission_id |-> sid], <<>>>>)
    ELSE Raised(Exception(behaviour, "foo"))

----------------------------------------------------------------------------
(* The state machine: a request arrives (Init) and one function serves it *)

NoRequestServed ==
    /\ pc = "ready"
    /\ op = "none"
    /\ data0 = data
    /\ agents = None
    /\ compiled = None
    /\ store_result = None
    /\ effects = <<>>
    /\ response = None

\* a request to one of the controllers
Init ==
    /\ data \in RequestDocuments
    /\ headers \in Headers
    /\ user_data \in Users
    /\ client_data \in Clients
    /\ submission_id \in SubmissionIds
    /\ NoRequestServed

\* a call of _update_submission, with the agents of an undelegated request
InitCompile ==
    /\ data \in Documents
    /\ headers = EmptyDict
    /\ user_data = [user_id |-> "1234", email |-> "foo@bar.baz"]
    /\ client_data = [client_id |-> "5678"]
    /\ submission_id = "1"
    /\ NoRequestServed

Served(name, r) ==
    /\ pc' = "done"
    /\ op' = name
    /\ data' = r.data
    /\ agents' = r.agents
    /\ compiled' = r.compiled
    /\ store_result' = r.store_result
    /\ effects' = r.effects
    /\ response' = r.response
    /\ UNCHANGED <<data0, headers, user_data, client_data, submission_id>>

CreateSubmission ==
    /\ pc = "ready"
    /\ \E b \in StoreBehaviours :
          Served("create_submission",
                 create_submission(data, headers, user_data, client_data,
                                   StoreAnswer(b, "3")))

UpdateSubmission ==
    /\ pc = "ready"
    /\ \E b \in StoreBehaviours :
          Served("update_submission",
                 update_submission(data, headers, user_data, client_data,
                                   submission_id, StoreAnswer(b, submission_id)))

GetSubmission ==
    /\ pc = "ready"
    /\ \E b \in StoreBehaviours :
          Served("get_submission",
                 get_submission(submission_id, StoreAnswer(b, submission_id))
                 @@ [data |-> data, agents |-> None, compiled |-> None])

UpdateSubmissionEvents ==
    /\ pc = "ready"
    /\ LET ag == _get_agents(headers, user_data, client_data)
           r == _update_submission(data, ag[1], ag[2], ag[3])
       IN  Served("_update_submission",
                  [data |-> r.data, agents |-> ag, compiled |-> r.outcome,
                   store_result |-> None, effects |-> <<>>, response |-> None])

Next == CreateSubmission \/ UpdateSubmission \/ GetSubmission

Spec == Init /\ [][Next]_vars

NextCompile == UpdateSubmissionEvents

SpecCompile == InitCompile /\ [][NextCompile]_vars

----------------------------------------------------------------------------
(* Properties *)

ControllerDone(names) == pc = "done" /\ op \in names

\* the store was called and raised an exception of class c
StoreRaised(c) ==
    /\ store_result # None
    /\ store_result.raised
    /\ store_result.exception.class = c

\* the controller raised the HTTP error c
Responded(c) == response.raised /\ response.exception.class = c

\* the calls made to the event store, in order
StoreCalls == SelectSeq(effects, LAMBDA x : x.effect = "call")

LicenseWithoutUri(d) == "license" \in DOMAIN d /\ "uri" \notin DOMAIN d["license"]

\* C1: when create or update compiled the document and the store rejected the
\* events as invalid (InvalidEvent), the controller answers BadRequest.
C1_InvalidEventIsBadRequest ==
    (ControllerDone({"create_submission", "update_submission"})
        /\ ~compiled.raised /\ StoreRaised("InvalidEvent"))
    => Responded("BadRequest")

\* C2: for a document whose license has no uri, _update_submission fails with
\* a ValidationError, and create and update answer BadRequest without handing
\* any event to the store.
C2_LicenseWithoutUriIsBadRequest ==
    (ControllerDone({"create_submission", "update_submission"})
        /\ LicenseWithoutUri(data0))
    => /\ compiled.raised
       /\ compiled.exception.class = "ValidationError"
       /\ Responded("BadRequest")
       /\ StoreCalls = <<>>

\* C3: create calls the store's save at most once, and exactly once when the
\* document compiled; the events passed are CreateSubmission(triple) followed
\* by the compiled events of the document, and no other event is a
\* CreateSubmission.
C3_CreateSubmissionFirst ==
    ControllerDone({"create_submission"})
    => IF compiled.raised
       THEN StoreCalls = <<>>
       ELSE /\ Len(StoreCalls) = 1
            /\ StoreCalls[1].fn = "ev.save"
            /\ LET args == StoreCalls[1].args
               IN  /\ Len(args) >= 1
                   /\ args[1].class = "CreateSubmission"
                   /\ args[1].creator = agents[1]
                   /\ args[1].client = agents[2]
                   /\ args[1].proxy = agents[3]
                   /\ Tail(args) = _update_submission(data0, agents[1], agents[2],
                                                      agents[3]).outcome.value
                   /\ \A i \in 2..Len(args) : args[i].class # "CreateSubmission"

\* C3 witness: create of the empty document passed CreateSubmission alone.
C3_Witness ==
    /\ ControllerDone({"create_submission"})
    /\ data0 = EmptyDict
    /\ Len(StoreCalls) = 1
    /\ Len(StoreCalls[1].args) = 1

\* the place of each kind of event in the list _update_submission returns
KindRank(kind) ==
    CASE kind = "AssertAuthorship" -> 1
      [] kind = "SelectLicense" -> 2
      [] kind = "AcceptPolicy" -> 3
      [] kind = "SetPrimaryClassification" -> 4
      [] kind = "AddSecondaryClassification" -> 5
      [] kind = "UpdateMetadata" -> 6
      [] kind = "UpdateAuthors" -> 7
      [] OTHER -> 0

RecognizedKeys ==
    {"submitter_is_author", "license", "submitter_accepts_policy",
     "primary_classification", "secondary_classification", "metadata"}

\* the events of one kind among those returned, in order
EventsOfKind(kind) == SelectSeq(compiled.value, LAMBDA e : e.class = kind)

CompileReturned == ControllerDone({"_update_submission"}) /\ ~compiled.raised

C4_WitnessEmpty ==
    CompileReturned /\ DOMAIN data0 = {"comment"} /\ compiled.value = <<>>

HeaderPresent == "X-On-Behalf-Of" \in DOMAIN headers

\* C5: when the X-On-Behalf-Of header is present, the creator is built from
\* the header's value alone, with empty contact fields, and the proxy is the
\* authenticated user (its id and email); the client is the authenticated
\* client application whether the header is present or not.
C5_Delegation ==
    ControllerDone({"create_submission", "update_submission"})
    => /\ HeaderPresent
          => /\ agents[1].class = "User"
             /\ agents[1].native_id = headers["X-On-Behalf-Of"]
             /\ agents[1].email = ""
             /\ agents[1].arg3 = ""
             /\ agents[3].class = "User"
             /\ agents[3].native_id = user_data["user_id"]
             /\ agents[3].email = user_data["email"]
       /\ agents[2].class = "Client"
       /\ agents[2].native_id = client_data["client_id"]
       /\ agents[2] = _get_agents(EmptyDict, user_data, client_data)[2]

\* C5 witness: a request on behalf of alice was served.
C5_Witness ==
    /\ ControllerDone({"create_submission", "update_submission"})
    /\ HeaderPresent
    /\ headers["X-On-Behalf-Of"] = "alice"
    /\ agents[1].native_id = "alice"
    /\ agents[3].native_id = user_data["user_id"]

\* C6: when the X-On-Behalf-Of header is absent or malformed (the empty
\* string), the request is not delegated: the creator is the authenticated
\* user and there is no proxy.
C6_MalformedHeaderIsNoDelegation ==
    (ControllerDone({"create_submission", "update_submission"})
        /\ (HeaderPresent => headers["X-On-Behalf-Of"] = ""))
    => /\ agents[1] = ev_User(user_data["user_id"], user_data["email"])
       /\ agents[3] = None

C8_CompileIsPure ==
    ControllerDone({"_update_submission"})
    => /\ data = data0
       /\ _update_submission(data, agents[1], agents[2], agents[3]).outcome = compiled

\* C9: when the store reports the submission of an update or a get as unknown
\* (NoSuchSubmission), the controller answers NotFound, having called the
\* store exactly once.
C9_NotFound ==
    (ControllerDone({"update_submission", "get_submission"})
        /\ StoreRaised("NoSuchSubmission"))
    => /\ Responded("NotFound")
       /\ Len(StoreCalls) = 1

\* C9 witness: an update and a get of an unknown submission.
C9_Witness ==
    /\ ControllerDone({"get_submission"})
    /\ StoreRaised("NoSuchSubmission")
    /\ Responded("NotFound")

C9_WitnessUpdate ==
    /\ ControllerDone({"update_submission"})
    /\ StoreRaised("NoSuchSubmission")
    /\ Responded("NotFound")

HandledByStoreClass == {"InvalidEvent", "NoSuchSubmission", "SaveError"}

\* C10: when the store raises an exception that is not InvalidEvent,
\* NoSuchSubmission or SaveError, the controller answers the generic
\* InternalServerError, and the exception's type and message were logged,
\* after the store call; and a controller either returns its response or
\* raises BadRequest, NotFound or InternalServerError.
C10_UnhandledIsLogged ==
    ControllerDone({"create_submission", "update_submission", "get_submission"})
    => /\ (store_result # None /\ store_result.raised
             /\ store_result.exception.class \notin HandledByStoreClass)
          => /\ Responded("InternalServerError")
             /\ response.exception.message = <<"Encountered unhandled exception">>
             /\ \E i, j \in 1..Len(effects) :
                   /\ i < j
                   /\ effects[i].effect = "call"
                   /\ effects[j].effect = "log"
                   /\ effects[j].level = "error"
                   /\ effects[j].args = <<store_result.exception.class,
                                          store_result.exception.message>>
       /\ response.raised
          => response.exception.class
               \in {"BadRequest", "NotFound", "InternalServerError"}

\* C10 witness, one per controller: the store raised a RuntimeError.
C10_Witness ==
    /\ ControllerDone({"create_submission"})
    /\ StoreRaised("RuntimeError")
    /\ Responded("InternalServerError")

C10_WitnessUpdate ==
    /\ ControllerDone({"update_submission"})
    /\ StoreRaised("RuntimeError")

C10_WitnessGet ==
    /\ ControllerDone({"get_submission"})
    /\ StoreRaised("RuntimeError")

\* the names in FIELDS
RecognizedFields == {FIELDS[i] : i \in 1..Len(FIELDS)}

C11_WitnessEmpty ==
    /\ CompileReturned
    /\ "metadata" \in DOMAIN data0
    /\ DOMAIN data0["metadata"] = {"keywords"}
    /\ Len(EventsOfKind("UpdateMetadata")) = 1
    /\ EventsOfKind("UpdateMetadata")[1].metadata = <<>>

====
